---- MODULE Spec2Model ----
(***************************************************************************)
(* A model of dsc.py, the asynchronous client of the dsc.gg API            *)
(* (src/dsc/client.py with src/dsc/enums.py and src/dsc/models.py).        *)
(*                                                                         *)
(* Python strings that the code slices or searches are sequences of        *)
(* one-character strings; Python values carry a type tag t; the result of  *)
(* a call is either Return(value) or Raise(exception class name).          *)
(***************************************************************************)
EXTENDS Integers, Sequences, FiniteSets, TLC

VARIABLES
    norm_in,    \* the input handed to a static helper or a value type
    norm_fn,    \* the helper that was applied to it ("none" before)
    norm_out,   \* what the helper produced
    op,         \* the public operation in progress ("none" when idle)
    args,       \* its arguments
    pc,         \* "idle", "awaiting" (suspended in an await) or "done"
    requests,   \* the requests handed to the ClientSession, in order
    response,   \* the response the transport delivered to the call
    outcome,    \* what the call returned or raised
    reads,      \* how many awaits on the body (res.json(), res.text()) have completed
                \* (op, args, pc, response, outcome and reads are functions
                \* of the call where several calls are in flight)
    _ses        \* the ClientSession the client owns

vars == <<norm_in, norm_fn, norm_out, op, args, pc, requests, response, outcome, reads, _ses>>

(***************************************************************************)
(* Python values and call results                                          *)
(***************************************************************************)
PyNone == [t |-> "None"]
PyStr(s) == [t |-> "str", str |-> s]
PyInt(i) == [t |-> "int", int |-> i]
PyBool(b) == [t |-> "bool", bool |-> b]
PyDict(d) == [t |-> "dict", dict |-> d]
PyList(items) == [t |-> "list", items |-> items]
PyTag(s) == [t |-> "strlit", lit |-> s]

Return(v) == [kind |-> "return", value |-> v]
Raise(e) == [kind |-> "raise", exc |-> e]
NoOutcome == [kind |-> "none"]

(***************************************************************************)
(* String primitives of Python, on sequences of characters                 *)
(***************************************************************************)
startswith(s, p) == Len(s) >= Len(p) /\ SubSeq(s, 1, Len(p)) = p

\* s[n:]
slice_from(s, n) == SubSeq(s, n + 1, Len(s))

\* s[:n]
slice_to(s, n) == SubSeq(s, 1, IF n > Len(s) THEN Len(s) ELSE n)

\* s.rindex(ch): the 0-based index of the last ch; -1 stands for ValueError
rindex(s, ch) ==
    LET hits == {i \in 1..Len(s) : s[i] = ch}
    IN  IF hits = {} THEN -1
        ELSE (CHOOSE i \in hits : \A j \in hits : j <= i) - 1

\* s.replace(old, ''): every non-overlapping occurrence, left to right
RECURSIVE remove_all(_, _)
remove_all(s, old) ==
    IF s = <<>> THEN <<>>
    ELSE IF startswith(s, old) THEN remove_all(slice_from(s, Len(old)), old)
    ELSE <<Head(s)>> \o remove_all(Tail(s), old)

HTTPS == <<"h", "t", "t", "p", "s", ":", "/", "/">>
DSC_HTTPS == <<"h", "t", "t", "p", "s", ":", "/", "/", "d", "s", "c", ".", "g", "g", "/">>
DSC_HTTP == <<"h", "t", "t", "p", ":", "/", "/", "d", "s", "c", ".", "g", "g", "/">>
DSC_BARE == <<"d", "s", "c", ".", "g", "g", "/">>

(***************************************************************************)
(* enums.LinkType: value -> member                                         *)
(***************************************************************************)
Server == <<"h", "t", "t", "p", "s", ":", "/", "/", "d", "i", "s", "c", "o", "r", "d", ".", "g", "g", "/">>
Template == <<"h", "t", "t", "p", "s", ":", "/", "/", "d", "i", "s", "c", "o", "r", "d", ".", "c", "o", "m", "/", "t", "e", "m", "p", "l", "a", "t", "e", "/">>
Bot == <<"h", "t", "t", "p", "s", ":", "/", "/", "d", "i", "s", "c", "o", "r", "d", ".", "c", "o", "m", "/", "o", "a", "u", "t", "h", "2", "/">>

\* LinkType(value): the member with that value, "ValueError" when there is none
LinkType(value) ==
    IF value = Server THEN "Server"
    ELSE IF value = Template THEN "Template"
    ELSE IF value = Bot THEN "Bot"
    ELSE "ValueError"

(***************************************************************************)
(* Client.format_link                                                      *)
(***************************************************************************)
\* the variant that knows no http:// prefix
format_link_no_http(link) ==
    IF startswith(link, DSC_HTTPS) THEN slice_from(link, 15)
    ELSE IF startswith(link, DSC_BARE) THEN slice_from(link, 7)
    ELSE link

format_link(link) ==
    IF startswith(link, DSC_HTTPS) THEN slice_from(link, 15)
    ELSE IF startswith(link, DSC_HTTP) THEN slice_from(link, 14)
    ELSE IF startswith(link, DSC_BARE) THEN slice_from(link, 7)
    ELSE link

(***************************************************************************)
(* Client.match_link_type                                                  *)
(***************************************************************************)
cor == [Server |-> "server", Bot |-> "bot", Template |-> "template"]

\* the variant that searches the target as given, without the scheme
match_link_type_no_scheme(link) ==
    LET idx == rindex(link, "/")
    IN  IF idx = -1 THEN Raise("ValueError")
        ELSE LET link_type == LinkType(slice_to(link, idx + 1))
             IN  IF link_type = "ValueError" THEN Return(PyTag("link"))
                 ELSE Return(PyTag(cor[link_type]))

match_link_type(link) ==
    LET l == IF startswith(link, HTTPS) THEN link ELSE HTTPS \o link
        idx == rindex(l, "/")
    IN  IF idx = -1 THEN Raise("ValueError")
        ELSE LET link_f == slice_to(l, idx + 1)
                 link_type == LinkType(link_f)
             IN  IF link_type = "ValueError" \/ link_type \notin DOMAIN cor
                 THEN Return(PyTag("link"))
                 ELSE Return(PyTag(cor[link_type]))

(***************************************************************************)
(* Inputs of the static helpers: up to MaxFragments fragments in a row     *)
(***************************************************************************)
MaxFragments == 3

Fragments == {
    HTTPS,
    <<"h", "t", "t", "p", ":", "/", "/">>,
    DSC_BARE,
    <<"d", "s", "c", ".", "g", "g">>,
    <<"d", "i", "s", "c", "o", "r", "d", ".", "g", "g", "/">>,
    <<"d", "i", "s", "c", "o", "r", "d", ".", "c", "o", "m", "/">>,
    <<"t", "e", "m", "p", "l", "a", "t", "e", "/">>,
    <<"o", "a", "u", "t", "h", "2", "/">>,
    <<"e", "x", "a", "m", "p", "l", "e", ".", "c", "o", "m">>,
    <<"/">>,
    <<"a">> }

RECURSIVE Strings(_)
Strings(n) ==
    IF n = 0 THEN {<<>>}
    ELSE LET shorter == Strings(n - 1)
         IN  shorter \cup {s \o f : s \in shorter, f \in Fragments}

LinkInputs == Strings(MaxFragments)

(***************************************************************************)
(* The idle client                                                         *)
(***************************************************************************)
NoArgs == [none |-> TRUE]
NoResponse == [none |-> TRUE]

\* ClientSession(timeout=timeout, headers={"Authorization": key}, ...)
Session == [closed |-> FALSE, headers |-> [Authorization |-> "key"]]

IdleCall ==
    /\ _ses = Session
    /\ op = "none"
    /\ args = NoArgs
    /\ pc = "idle"
    /\ requests = <<>>
    /\ response = NoResponse
    /\ outcome = NoOutcome
    /\ reads = 0

(***************************************************************************)
(* The static helpers applied to one input                                 *)
(***************************************************************************)
InitNorm ==
    /\ norm_in \in LinkInputs
    /\ norm_fn = "none"
    /\ norm_out = NoOutcome
    /\ IdleCall

ApplyFormatLink ==
    /\ norm_fn = "none"
    /\ norm_fn' = "format_link"
    /\ norm_out' = Return(PyStr(format_link(norm_in)))
    /\ UNCHANGED <<norm_in, op, args, pc, requests, response, outcome, reads, _ses>>

ApplyMatchLinkType ==
    /\ norm_fn = "none"
    /\ norm_fn' = "match_link_type"
    /\ norm_out' = match_link_type(norm_in)
    /\ UNCHANGED <<norm_in, op, args, pc, requests, response, outcome, reads, _ses>>

NextNorm == ApplyFormatLink \/ ApplyMatchLinkType

SpecNorm == InitNorm /\ [][NextNorm]_vars

(***************************************************************************)
(* models.Colour.__str__: '#{:0>6x}'.format(value)                         *)
(***************************************************************************)
HexDigits == <<"0", "1", "2", "3", "4", "5", "6", "7", "8", "9", "a", "b", "c", "d", "e", "f">>

RECURSIVE hex(_)
hex(n) ==
    IF n < 16 THEN <<HexDigits[n + 1]>>
    ELSE hex(n \div 16) \o <<HexDigits[(n % 16) + 1]>>

\* '{:0>w}': pad on the left with "0" up to width w, never truncate
pad_left(s, w) ==
    IF Len(s) >= w THEN s ELSE [i \in 1..(w - Len(s)) |-> "0"] \o s

Colour(value) == [t |-> "Colour", value |-> value]

\* the variant that prints the value without padding
Colour_str_unpadded(c) == <<"#">> \o hex(c.value)

Colour_str(c) == <<"#">> \o pad_left(hex(c.value), 6)

(***************************************************************************)
(* enums.ResponseCodes: member name -> numeric code                        *)
(***************************************************************************)
ResponseCodes == [
    payload_received |-> 200,
    rate_limit |-> 429,
    invalid_key |-> 401,
    not_found |-> 404,
    owner_blacklisted |-> 403,
    version_deprecated |-> 410,
    bad_request |-> 400,
    link_taken |-> 400,
    link_created |-> 201,
    link_updated |-> 200,
    link_deleted |-> 200,
    owner_mismatch |-> 403,
    whitelist_only |-> 403 ]

\* str.lower() on the strings the model hands to it
lower(s) ==
    CASE s = "RATE_LIMIT" -> "rate_limit"
      [] s = "Bot" -> "bot"
      [] s = "SERVER" -> "server"
      [] OTHER -> s

\* str(n).startswith('2'): the leading decimal digit of n is 2
RECURSIVE leading_digit(_)
leading_digit(n) == IF n < 10 THEN n ELSE leading_digit(n \div 10)

(***************************************************************************)
(* Client._raise_for_status: Raise(...) or Return(PyNone)                  *)
(***************************************************************************)
\* the variant that lets only the numeric code 200 pass
_raise_for_status_only_200(data) ==
    IF "code" \notin DOMAIN data THEN Raise("KeyError")
    ELSE LET code == lower(data.code)
         IN  IF code \notin DOMAIN ResponseCodes THEN Raise("AttributeError")
             ELSE IF ResponseCodes[code] # 200 THEN Raise("DSCGGError")
             ELSE Return(PyNone)

_raise_for_status(data) ==
    IF "code" \notin DOMAIN data THEN Raise("KeyError")
    ELSE LET code == lower(data.code)
         IN  IF code \notin DOMAIN ResponseCodes THEN Raise("AttributeError")
             ELSE IF leading_digit(ResponseCodes[code]) # 2 THEN Raise("DSCGGError")
             ELSE Return(PyNone)

(***************************************************************************)
(* models.Colour                                                           *)
(***************************************************************************)
RECURSIVE pow2(_)
pow2(n) == IF n = 0 THEN 1 ELSE 2 * pow2(n - 1)

\* x << n and x >> n on non-negative integers
shl(x, n) == x * pow2(n)
shr(x, n) == x \div pow2(n)

UpperHexDigits == <<"0", "1", "2", "3", "4", "5", "6", "7", "8", "9", "A", "B", "C", "D", "E", "F">>

\* the value of character ch as a digit, 99 when it is none
digit_value(ch) ==
    IF \E i \in 1..16 : HexDigits[i] = ch
    THEN (CHOOSE i \in 1..16 : HexDigits[i] = ch) - 1
    ELSE IF \E i \in 1..16 : UpperHexDigits[i] = ch
    THEN (CHOOSE i \in 1..16 : UpperHexDigits[i] = ch) - 1
    ELSE 99

\* int(s, base) on an unsigned run of digits; -1 stands for ValueError
RECURSIVE parse_int(_, _)
parse_int(s, base) ==
    IF s = <<>> THEN -1
    ELSE LET d == digit_value(s[Len(s)])
         IN  IF d >= base THEN -1
             ELSE IF Len(s) = 1 THEN d
             ELSE LET rest == parse_int(SubSeq(s, 1, Len(s) - 1), base)
                  IN  IF rest = -1 THEN -1 ELSE rest * base + d

\* Colour.__init__
Colour_init(value) ==
    IF value.t \notin {"int", "str"} THEN Raise("TypeError")
    ELSE IF value.t = "str"
    THEN LET n == parse_int(slice_from(value.str, 1), 16)
         IN  IF n = -1 THEN Raise("ValueError") ELSE Return(Colour(n))
    ELSE Return(Colour(value.int))

\* the variant that takes four bits for a byte
_get_byte_nibble(c, byte) == shr(c.value, 4 * byte) % 256

\* Colour._get_byte: (value >> (8 * byte)) & 0xff
_get_byte(c, byte) == shr(c.value, 8 * byte) % 256

Colour_r(c) == _get_byte(c, 2)
Colour_g(c) == _get_byte(c, 1)
Colour_b(c) == _get_byte(c, 0)

to_rgb(c) == <<Colour_r(c), Colour_g(c), Colour_b(c)>>

from_rgb(r, g, b) == Colour_init(PyInt(shl(r, 16) + shl(g, 8) + b))

(***************************************************************************)
(* models.Embed and models.Link, built from keyword arguments and from     *)
(* decoded JSON objects (functions from key to Python value)               *)
(***************************************************************************)
\* models.Embed: title, description, image and a Colour, kept in __slots__
Embed(title, description, image, color) ==
    [t |-> "Embed", title |-> title, description |-> description,
     image |-> image, color |-> color]

isinstance(v, cls) == v.t = cls

\* d.get(key, default)
get(d, key, default) == IF key \in DOMAIN d THEN d[key] ELSE default

\* the typing object the class of `color` is compared with
UnionStrInt == "typing.Union[str, int]"

\* Embed.__init__(**kwargs)
Embed_init(kwargs) ==
    LET c == get(kwargs, "color", PyNone)
        image == get(kwargs, "image", PyNone)
        description == get(kwargs, "description", PyNone)
        title == get(kwargs, "title", PyNone)
    IN  IF c.t = UnionStrInt
        THEN LET color == Colour_init(c)
             IN  IF color.kind = "raise" THEN color
                 ELSE Return(Embed(title, description, image, color.value))
        ELSE IF isinstance(c, "Colour")
        THEN Return(Embed(title, description, image, c))
        ELSE Raise("TypeError")

\* Embed.from_dict
Embed_from_dict(data) ==
    [t |-> "Embed",
     saying |-> get(data, "saying", PyNone),
     image |-> get(data, "image", PyNone),
     color |-> get(data, "color", PyNone),
     description |-> get(data, "description", PyNone),
     title |-> get(data, "title", PyNone)]

\* bool(v) of `if bump`
truthy(v) ==
    CASE v.t = "None" -> FALSE
      [] v.t = "str" -> v.str # <<>>
      [] v.t = "int" -> v.int # 0
      [] OTHER -> TRUE

\* datetime.utcfromtimestamp(int(v) / 1000). The integer of a digit string
\* is divided in decimal: the last three digits are the milliseconds, the
\* digits before them the seconds (a millisecond epoch exceeds 32 bits).
utcfromtimestamp_ms(v) ==
    IF v.t \in {"None", "dict", "list"} THEN Raise("TypeError")
    ELSE IF v.t = "str"
    THEN IF v.str = <<>> \/ \E i \in 1..Len(v.str) : digit_value(v.str[i]) >= 10
         THEN Raise("ValueError")
         ELSE LET n == Len(v.str)
                  high == IF n > 3 THEN parse_int(SubSeq(v.str, 1, n - 3), 10) ELSE 0
                  low == parse_int(SubSeq(v.str, IF n > 3 THEN n - 2 ELSE 1, n), 10)
              IN  Return([t |-> "datetime", second |-> high,
                          microsecond |-> low * 1000])
    ELSE Return([t |-> "datetime", second |-> v.int \div 1000,
                 microsecond |-> (v.int % 1000) * 1000])

\* Link.__init__ of models.py
Link_init(data) ==
    LET bump == get(data, "bumped_at", PyNone)
        created_at == utcfromtimestamp_ms(get(data, "created_at", PyNone))
        bumped_at == IF truthy(bump) THEN utcfromtimestamp_ms(bump)
                     ELSE Return(PyNone)
    IN  IF created_at.kind = "raise" THEN created_at
        ELSE IF bumped_at.kind = "raise" THEN bumped_at
        ELSE IF "meta" \notin DOMAIN data THEN Raise("KeyError")
        ELSE IF data.meta.t # "dict" THEN Raise("AttributeError")
        ELSE Return([t |-> "Link",
                     id |-> get(data, "id", PyNone),
                     owner_id |-> get(data, "owner", PyNone),
                     redirect |-> get(data, "redirect", PyNone),
                     created_at |-> created_at.value,
                     bumped_at |-> bumped_at.value,
                     unlisted |-> get(data, "unlisted", PyBool(FALSE)),
                     disabled |-> get(data, "disabled", PyBool(FALSE)),
                     embed |-> Embed_from_dict(data.meta.dict),
                     type |-> get(data, "type", PyNone),
                     domain |-> get(data, "domain", PyNone)])

\* App.__init__
App_init(data) ==
    LET created_at == IF "created_at" \in DOMAIN data
                      THEN utcfromtimestamp_ms(data.created_at)
                      ELSE Raise("KeyError")
    IN  IF created_at.kind = "raise" THEN created_at
        ELSE Return([t |-> "App",
                     id |-> get(data, "id", PyNone),
                     owner_id |-> get(data, "owner_id", PyNone),
                     created_at |-> created_at.value,
                     verified |-> get(data, "verified", PyBool(FALSE)),
                     key |-> get(data, "key", PyNone)])

\* int(v) of a Python value: a string of decimal digits, or an int
int(v) ==
    IF v.t \in {"None", "dict", "list"} THEN Raise("TypeError")
    ELSE IF v.t = "str"
    THEN LET n == parse_int(v.str, 10)
         IN  IF n = -1 THEN Raise("ValueError") ELSE Return(PyInt(n))
    ELSE Return(PyInt(v.int))

\* the variant that keeps the identifier as the payload gives it
User_init_raw_id(data) ==
    LET joined_at == utcfromtimestamp_ms(get(data, "joined_at", PyNone))
    IN  IF "id" \notin DOMAIN data THEN Raise("TypeError")
        ELSE IF joined_at.kind = "raise" THEN joined_at
        ELSE Return([t |-> "User",
                     id |-> data.id,
                     premium |-> get(data, "premium", PyBool(FALSE)),
                     verified |-> get(data, "verified", PyBool(FALSE)),
                     joined_at |-> joined_at.value,
                     blacklisted |-> get(data, "blacklisted", PyBool(FALSE))])

\* User.__init__
User_init(data) ==
    LET id == int(get(data, "id", PyNone))
        joined_at == utcfromtimestamp_ms(get(data, "joined_at", PyNone))
    IN  IF id.kind = "raise" THEN id
        ELSE IF joined_at.kind = "raise" THEN joined_at
        ELSE Return([t |-> "User",
                     id |-> id.value,
                     premium |-> get(data, "premium", PyBool(FALSE)),
                     verified |-> get(data, "verified", PyBool(FALSE)),
                     joined_at |-> joined_at.value,
                     blacklisted |-> get(data, "blacklisted", PyBool(FALSE))])

(***************************************************************************)
(* Responses of the transport                                              *)
(***************************************************************************)
Statuses == {200, 201, 400, 404, 429, 500, 503}

\* the `code` strings a body may carry: the known ones, one in upper case,
\* one that ResponseCodes does not list
WireCodes == (DOMAIN ResponseCodes) \cup {"RATE_LIMIT", "unknown_code"}

\* the `payload` member: an object every value type decodes, one without
\* `meta` and with an identifier that is no number, an empty object, null,
\* and lists of one such object
FullData ==
    [id |-> PyStr(<<"1", "2", "3">>), created_at |-> PyStr(<<"5">>),
     joined_at |-> PyStr(<<"5">>), meta |-> PyDict(<<>>)]

NoMetaData ==
    [id |-> PyStr(<<"a", "b", "c">>), created_at |-> PyStr(<<"5">>),
     joined_at |-> PyStr(<<"5">>)]

Payloads ==
    {PyDict(FullData), PyDict(NoMetaData), PyDict(<<>>), PyNone,
     PyList(<<PyDict(FullData)>>), PyList(<<PyDict(NoMetaData)>>),
     PyList(<<PyDict(<<>>)>>)}

Envelopes ==
    [success : BOOLEAN, code : WireCodes, payload : Payloads]
        \cup [success : BOOLEAN, payload : Payloads]

\* a body is the JSON envelope, or a text res.json() cannot decode
Bodies ==
    {[json |-> FALSE, text |-> t] : t \in {<<>>, <<"a", " ", "b", "u", "t", "t">>}}
        \cup {[json |-> TRUE, data |-> e] : e \in Envelopes}

Responses == [status : Statuses, body : Bodies]

(***************************************************************************)
(* Decoding with the value types of models.py                              *)
(***************************************************************************)
\* cls(data=payload): the constructors start with data.get(...), which
\* only a dict has
decode(cls, payload) ==
    IF payload.t # "dict" THEN Raise("AttributeError")
    ELSE CASE cls = "User" -> User_init(payload.dict)
           [] cls = "Link" -> Link_init(payload.dict)
           [] cls = "App" -> App_init(payload.dict)

\* [cls(x) for x in payload]: the loop takes the elements of a list or
\* the keys of a dict (strings) in order, and the first element that fails
\* ends it
RECURSIVE decode_list(_, _)
decode_list(cls, payload) ==
    CASE payload.t = "list" ->
            IF payload.items = <<>> THEN Return(PyList(<<>>))
            ELSE LET x == decode(cls, Head(payload.items))
                 IN  IF x.kind = "raise" THEN x
                     ELSE LET rest == decode_list(cls, PyList(Tail(payload.items)))
                          IN  IF rest.kind = "raise" THEN rest
                              ELSE Return(PyList(<<x.value>> \o rest.value.items))
      [] payload.t = "dict" ->
            decode_list(cls, PyList(IF DOMAIN payload.dict = {} THEN <<>>
                                    ELSE <<PyStr(<<"k">>)>>))
      [] OTHER -> Raise("TypeError")

\* a first step that raised ends the call, otherwise the rest decides
then(r, rest) == IF r.kind = "raise" THEN r ELSE rest

\* await res.json()
json_failed(res) == ~res.body.json

(***************************************************************************)
(* What each operation does with the response it awaited                   *)
(***************************************************************************)
\* the variant that decodes on status 200 whatever the success flag says
get_user_result_status_only(res) ==
    IF json_failed(res) THEN Raise("ContentTypeError")
    ELSE LET res_ == res.body.data
         IN  IF res.status = 200 THEN decode("User", res_.payload)
             ELSE IF res.status # 404
                  THEN then(_raise_for_status(res_), Return(PyNone))
                  ELSE Return(PyNone)

get_user_result(res) ==
    IF json_failed(res) THEN Raise("ContentTypeError")
    ELSE LET res_ == res.body.data
         IN  IF res.status = 200 /\ res_.success THEN decode("User", res_.payload)
             ELSE IF res.status # 404
                  THEN then(_raise_for_status(res_), Return(PyNone))
                  ELSE Return(PyNone)

\* the common shape of get_link and get_app
get_one(res, cls) ==
    IF res.status = 200
    THEN IF json_failed(res) THEN Raise("ContentTypeError")
         ELSE decode(cls, res.body.data.payload)
    ELSE IF res.status # 404
         THEN IF json_failed(res) THEN Raise("ContentTypeError")
              ELSE then(_raise_for_status(res.body.data), Return(PyNone))
         ELSE Return(PyNone)

get_link_result(res) == get_one(res, "Link")

get_app_result(res) == get_one(res, "App")

\* the variant that decodes the body before it looks at the status
get_many_json_first(res, cls) ==
    IF json_failed(res) THEN Raise("ContentTypeError")
    ELSE IF res.status = 200 THEN decode_list(cls, res.body.data.payload)
    ELSE IF res.status # 404
         THEN then(_raise_for_status(res.body.data), Return(PyList(<<>>)))
         ELSE Return(PyList(<<>>))

\* the common shape of get_user_links, get_user_apps and get_top_links
get_many(res, cls) ==
    IF res.status = 200
    THEN IF json_failed(res) THEN Raise("ContentTypeError")
         ELSE decode_list(cls, res.body.data.payload)
    ELSE IF res.status # 404
         THEN IF json_failed(res) THEN Raise("ContentTypeError")
              ELSE then(_raise_for_status(res.body.data), Return(PyList(<<>>)))
         ELSE Return(PyList(<<>>))

get_user_links_result(res) == get_many(res, "Link")

get_user_apps_result(res) == get_many(res, "App")

get_top_links_result(res) == get_many(res, "Link")

search_result(res) ==
    IF res.status = 404 THEN Return(PyList(<<>>))
    ELSE IF json_failed(res) THEN Raise("ContentTypeError")
    ELSE then(_raise_for_status(res.body.data),
              decode_list("Link", res.body.data.payload))

\* create_link, update_link and delete_link after the request
mutation_result(res) ==
    IF json_failed(res) THEN Raise("ContentTypeError")
    ELSE then(_raise_for_status(res.body.data), Return(PyInt(res.status)))

\* get_butt: str(await res.text()) on 200. The text of a body that is no
\* JSON is the body; the text of a JSON body is the str that holds the
\* document, kept here as the data it spells
get_butt_result(res) ==
    IF res.status = 200
    THEN Return(IF res.body.json THEN [t |-> "str", json |-> res.body.data]
                ELSE PyStr(res.body.text))
    ELSE IF res.status # 404
         THEN IF json_failed(res) THEN Raise("ContentTypeError")
              ELSE then(_raise_for_status(res.body.data), Return(PyNone))
         ELSE Return(PyNone)

(***************************************************************************)
(* Arguments of the public operations                                      *)
(***************************************************************************)
UserIds == {7, 8}
AppIds == {3}

ABC == <<"a", "b", "c">>

\* link arguments: a bare slug and a full link
LinkArgs == {ABC, DSC_HTTPS \o ABC}

\* redirect arguments: a server invite with its scheme, a bot invite
\* without, a plain site behind http://
RedirectArgs == {
    Server \o ABC,
    <<"d", "i", "s", "c", "o", "r", "d", ".", "c", "o", "m", "/", "o", "a", "u", "t", "h", "2", "/", "x">>,
    <<"h", "t", "t", "p", ":", "/", "/", "e", "x", "a", "m", "p", "l", "e", ".", "c", "o", "m", "/", "f", "o", "o">> }

\* an instance of a class that keeps its attributes in __dict__
PyObject(items) == [t |-> "object", dict |-> items]

TEAL == 1752220

\* embed arguments: none, an Embed, and values that are no Embed (a str,
\* an object without attributes, an object with a title attribute)
EmbedArgs == {
    PyNone,
    Embed(PyStr(<<"t">>), PyStr(<<"d">>), PyNone, Colour(TEAL)),
    PyStr(<<"t">>),
    PyObject(<<>>),
    PyObject(<<[key |-> "title", value |-> PyStr(<<"t">>)]>>) }

PasswordArgs == {PyNone, PyStr(<<"p", "w">>)}

LimitArgs == {PyNone, PyInt(0), PyInt(5)}

LinkTypeArgs == {PyNone, PyTag("server"), PyTag("Bot"), PyTag("other")}

Queries == {"cats"}

(***************************************************************************)
(* What each operation does before it suspends on the transport:           *)
(* Raise(...) or Send(request)                                             *)
(***************************************************************************)
Send(req) == [kind |-> "send", request |-> req]
Built(body) == [kind |-> "built", body |-> body]

\* v.__dict__ exists: Embed declares __slots__, str has none either
has_dict(v) == v.t = "object"

\* the loop of _insert_embed_fields over the items of embed.__dict__
RECURSIVE insert_items(_, _)
insert_items(body, items) ==
    IF items = <<>> THEN Built(body)
    ELSE IF "meta" \notin DOMAIN body THEN Raise("KeyError")
    ELSE LET item == Head(items)
             value == IF isinstance(item.value, "Colour")
                      THEN PyStr(Colour_str(item.value))
                      ELSE item.value
         IN  insert_items([body EXCEPT !.meta = (item.key :> value) @@ body.meta],
                          Tail(items))

_insert_embed_fields(body, embed) ==
    IF ~has_dict(embed) THEN Raise("AttributeError")
    ELSE insert_items(body, embed.dict)

\* the variant that does not look at the class of embed
insert_embed_unchecked(body, embed) ==
    IF embed # PyNone THEN _insert_embed_fields(body, embed)
    ELSE Built(body)

\* `if embed is not None:` of create_link and update_link
insert_embed(body, embed) ==
    IF embed # PyNone
    THEN IF ~isinstance(embed, "Embed") THEN Raise("TypeError")
         ELSE _insert_embed_fields(body, embed)
    ELSE Built(body)

\* `if password is not None:` and `if unlisted is True:`
insert_flags(body, password, unlisted) ==
    LET b1 == IF password # PyNone THEN ("password" :> password.str) @@ body
              ELSE body
    IN  IF unlisted = TRUE THEN ("unlisted" :> TRUE) @@ b1 ELSE b1

GET(url) == [method |-> "GET", url |-> url]

get_user_prepare(a) == Send(GET([route |-> "/user/{user_id}", user_id |-> a.user_id]))

get_link_prepare(a) == Send(GET([route |-> "/link/{link}", link |-> format_link(a.link)]))

get_user_links_prepare(a) ==
    Send(GET([route |-> "/user/{user_id}/links", user_id |-> a.user_id]))

\* the variant with a route of its own
get_user_apps_own_route(a) ==
    Send(GET([route |-> "/user/{user_id}/apps", user_id |-> a.user_id]))

get_user_apps_prepare(a) ==
    Send(GET([route |-> "/user/{user_id}/links", user_id |-> a.user_id]))

get_app_prepare(a) == Send(GET([route |-> "/app/{app_id}", app_id |-> a.app_id]))

get_top_links_prepare(a) == Send(GET([route |-> "/top"]))

get_butt_prepare(a) == Send(GET([route |-> "/butt"]))

search_prepare(a) ==
    LET u0 == [route |-> "/search", q |-> a.query]
        u1 == IF a.limit # PyNone /\ a.limit.int # 0
              THEN ("limit" :> a.limit.int) @@ u0 ELSE u0
    IN  IF a.link_type = PyNone THEN Raise("AttributeError")
        ELSE IF lower(a.link_type.lit) \in {"server", "bot", "template"}
             THEN Send(GET(("type" :> lower(a.link_type.lit)) @@ u1))
             ELSE Send(GET(u1))

create_link_prepare(a) ==
    LET link == format_link(a.link)
        redirect == IF startswith(a.redirect, HTTPS)
                    THEN remove_all(a.redirect, HTTPS) ELSE a.redirect
        link_type == match_link_type(redirect)
    IN  IF link_type.kind = "raise" THEN link_type
        ELSE LET b == insert_embed([type |-> link_type.value.lit, redirect |-> redirect],
                                   a.embed)
             IN  IF b.kind = "raise" THEN b
                 ELSE Send([method |-> "POST",
                            url |-> [route |-> "/link/{link}", link |-> link],
                            json |-> insert_flags(b.body, a.password, a.unlisted)])

update_link_prepare(a) ==
    LET link == format_link(a.link)
        b == insert_embed([link |-> link], a.embed)
    IN  IF b.kind = "raise" THEN b
        ELSE LET b2 == insert_flags(b.body, a.password, a.unlisted)
                 body == IF a.redirect # PyNone
                         THEN ("redirect" :> a.redirect.str) @@ b2
                         ELSE b2
             IN  Send([method |-> "PATCH",
                       url |-> [route |-> "/link/{link}", link |-> link],
                       json |-> body])

delete_link_prepare(a) ==
    Send([method |-> "DELETE",
          url |-> [route |-> "/link/{link}", link |-> format_link(a.link)]])

(***************************************************************************)
(* One call on the client: the operation runs up to its request, suspends  *)
(* on the session, and after the response suspends in each res.json()      *)
(***************************************************************************)
\* the part of a coroutine before its first await, on the session
prepare(o, a) ==
    CASE o = "get_user" -> get_user_prepare(a)
      [] o = "get_link" -> get_link_prepare(a)
      [] o = "get_user_links" -> get_user_links_prepare(a)
      [] o = "get_user_apps" -> get_user_apps_prepare(a)
      [] o = "get_app" -> get_app_prepare(a)
      [] o = "get_top_links" -> get_top_links_prepare(a)
      [] o = "search" -> search_prepare(a)
      [] o = "get_butt" -> get_butt_prepare(a)
      [] o = "create_link" -> create_link_prepare(a)
      [] o = "update_link" -> update_link_prepare(a)
      [] o = "delete_link" -> delete_link_prepare(a)

\* the part of a coroutine after its first await, run to its end
result(o, res) ==
    CASE o = "get_user" -> get_user_result(res)
      [] o = "get_link" -> get_link_result(res)
      [] o = "get_user_links" -> get_user_links_result(res)
      [] o = "get_user_apps" -> get_user_apps_result(res)
      [] o = "get_app" -> get_app_result(res)
      [] o = "get_top_links" -> get_top_links_result(res)
      [] o = "search" -> search_result(res)
      [] o = "get_butt" -> get_butt_result(res)
      [] o \in {"create_link", "update_link", "delete_link"} -> mutation_result(res)

\* what a coroutine does when `await self._ses.<method>(...)` gives it the
\* response: get_user and the mutations go on to `await res.json()` and are
\* suspended again ([kind |-> "await"]); the others look at res.status
\* first and end at once on 404, and are suspended in `await res.json()`
\* (get_butt on 200 in `await res.text()`) otherwise
received(o, res) ==
    IF o \in {"get_user", "create_link", "update_link", "delete_link"}
    THEN [kind |-> "await"]
    ELSE IF res.status = 404 THEN result(o, res) ELSE [kind |-> "await"]

\* what a coroutine does when its n-th `await res.json()` (for get_butt on
\* 200, its `await res.text()`) completes: it
\* runs to its end, except search, which after _raise_for_status let the
\* first body pass awaits res.json() a second time for the payload
read(o, res, n) ==
    IF /\ o = "search"
       /\ n = 1
       /\ ~json_failed(res)
       /\ _raise_for_status(res.body.data).kind # "raise"
    THEN [kind |-> "await"]
    ELSE result(o, res)

Init ==
    /\ norm_in = <<>>
    /\ norm_fn = "none"
    /\ norm_out = NoOutcome
    /\ IdleCall

\* the caller invokes operation o with arguments a; p is what it prepared
Begin(o, a, p) ==
    /\ pc = "idle"
    /\ op' = o
    /\ args' = a
    /\ IF p.kind = "raise"
       THEN /\ pc' = "done"
            /\ outcome' = p
            /\ requests' = requests
       ELSE /\ pc' = "awaiting"
            /\ outcome' = outcome
            /\ requests' = Append(requests, p.request)
    /\ UNCHANGED <<norm_in, norm_fn, norm_out, response, reads, _ses>>

\* the transport delivers a response to operation o, suspended on the
\* session
Resume(o) ==
    /\ pc = "awaiting"
    /\ op = o
    /\ response = NoResponse
    /\ \E res \in Responses :
          LET r == received(o, res)
          IN  /\ response' = res
              /\ IF r.kind = "await"
                 THEN pc' = pc /\ outcome' = outcome
                 ELSE pc' = "done" /\ outcome' = r
    /\ UNCHANGED <<norm_in, norm_fn, norm_out, op, args, requests, reads, _ses>>

\* an await on the body (res.json(), for get_butt on 200 res.text()) of
\* the operation in progress completes
Read ==
    /\ pc = "awaiting"
    /\ response # NoResponse
    /\ reads' = reads + 1
    /\ LET r == read(op, response, reads + 1)
       IN  IF r.kind = "await"
           THEN pc' = pc /\ outcome' = outcome
           ELSE pc' = "done" /\ outcome' = r
    /\ UNCHANGED <<norm_in, norm_fn, norm_out, op, args, requests, response, _ses>>

get_user ==
    /\ pc = "idle"
    /\ \E a \in [user_id : UserIds] : Begin("get_user", a, get_user_prepare(a))

get_user_resume == Resume("get_user")

get_link ==
    /\ pc = "idle"
    /\ \E a \in [link : LinkArgs] : Begin("get_link", a, get_link_prepare(a))

get_link_resume == Resume("get_link")

get_user_links ==
    /\ pc = "idle"
    /\ \E a \in [user_id : UserIds] : Begin("get_user_links", a, get_user_links_prepare(a))

get_user_links_resume == Resume("get_user_links")

get_user_apps ==
    /\ pc = "idle"
    /\ \E a \in [user_id : UserIds] : Begin("get_user_apps", a, get_user_apps_prepare(a))

get_user_apps_resume == Resume("get_user_apps")

get_app ==
    /\ pc = "idle"
    /\ \E a \in [app_id : AppIds] : Begin("get_app", a, get_app_prepare(a))

get_app_resume == Resume("get_app")

get_top_links ==
    /\ pc = "idle"
    /\ \E a \in {NoArgs} : Begin("get_top_links", a, get_top_links_prepare(a))

get_top_links_resume == Resume("get_top_links")

search ==
    /\ pc = "idle"
    /\ \E a \in [query : Queries, limit : LimitArgs, link_type : LinkTypeArgs] :
          Begin("search", a, search_prepare(a))

search_resume == Resume("search")

get_butt ==
    /\ pc = "idle"
    /\ \E a \in {NoArgs} : Begin("get_butt", a, get_butt_prepare(a))

get_butt_resume == Resume("get_butt")

create_link ==
    /\ pc = "idle"
    /\ \E a \in [link : LinkArgs, redirect : RedirectArgs, embed : EmbedArgs,
                 password : PasswordArgs, unlisted : BOOLEAN] :
          Begin("create_link", a, create_link_prepare(a))

create_link_resume == Resume("create_link")

update_link ==
    /\ pc = "idle"
    /\ \E a \in [link : LinkArgs, redirect : {PyNone} \cup {PyStr(r) : r \in RedirectArgs},
                 embed : EmbedArgs, password : PasswordArgs, unlisted : BOOLEAN] :
          Begin("update_link", a, update_link_prepare(a))

update_link_resume == Resume("update_link")

delete_link ==
    /\ pc = "idle"
    /\ \E a \in [link : LinkArgs] : Begin("delete_link", a, delete_link_prepare(a))

delete_link_resume == Resume("delete_link")

Next ==
    \/ get_user \/ get_user_resume
    \/ get_link \/ get_link_resume
    \/ get_user_links \/ get_user_links_resume
    \/ get_user_apps \/ get_user_apps_resume
    \/ get_app \/ get_app_resume
    \/ get_top_links \/ get_top_links_resume
    \/ search \/ search_resume
    \/ get_butt \/ get_butt_resume
    \/ create_link \/ create_link_resume
    \/ update_link \/ update_link_resume
    \/ delete_link \/ delete_link_resume
    \/ Read

Spec == Init /\ [][Next]_vars

(***************************************************************************)
(* Several calls in flight on one client: each call has its own locals     *)
(* (operation, arguments, response, outcome), all calls hand their         *)
(* requests to the one session, and the transport answers them in any      *)
(* order                                                                   *)
(***************************************************************************)
MaxCalls == 2

Calls == 1..MaxCalls

\* the calls made concurrently: one operation of each shape (get_user,
\* which reads the body first, for two users; a single read; a list read;
\* search with its two reads; two mutations) and a search that fails before
\* it sends anything
ConcurrentCalls ==
    {[op |-> "get_user", args |-> [user_id |-> u]] : u \in UserIds}
    \cup {[op |-> "get_link", args |-> [link |-> ABC]],
          [op |-> "get_user_apps", args |-> [user_id |-> 7]],
          [op |-> "search",
           args |-> [query |-> "cats", limit |-> PyInt(5), link_type |-> PyTag("Bot")]],
          [op |-> "search",
           args |-> [query |-> "cats", limit |-> PyNone, link_type |-> PyNone]],
          [op |-> "create_link",
           args |-> [link |-> ABC, redirect |-> Server \o ABC, embed |-> PyNone,
                     password |-> PyNone, unlisted |-> FALSE]],
          [op |-> "delete_link", args |-> [link |-> ABC]],
          [op |-> "get_butt", args |-> NoArgs]}

\* the answers of the transport: a success with one object, a 404 without
\* a JSON body, a failure envelope
ConcurrentResponses ==
    {[status |-> 200,
      body |-> [json |-> TRUE,
                data |-> [success |-> TRUE, code |-> "payload_received",
                          payload |-> PyDict(FullData)]]],
     [status |-> 404, body |-> [json |-> FALSE, text |-> <<>>]],
     [status |-> 500,
      body |-> [json |-> TRUE,
                data |-> [success |-> FALSE, code |-> "rate_limit",
                          payload |-> PyNone]]]}

InitCalls ==
    /\ norm_in = <<>>
    /\ norm_fn = "none"
    /\ norm_out = NoOutcome
    /\ _ses = Session
    /\ op = [i \in Calls |-> "none"]
    /\ args = [i \in Calls |-> NoArgs]
    /\ pc = [i \in Calls |-> "idle"]
    /\ requests = <<>>
    /\ response = [i \in Calls |-> NoResponse]
    /\ outcome = [i \in Calls |-> NoOutcome]
    /\ reads = [i \in Calls |-> 0]

\* call i starts: the coroutine runs up to `await self._ses.<method>(...)`
Call(i) ==
    /\ pc[i] = "idle"
    /\ \E c \in ConcurrentCalls :
          LET p == prepare(c.op, c.args)
          IN  /\ op' = [op EXCEPT ![i] = c.op]
              /\ args' = [args EXCEPT ![i] = c.args]
              /\ IF p.kind = "raise"
                 THEN /\ pc' = [pc EXCEPT ![i] = "done"]
                      /\ outcome' = [outcome EXCEPT ![i] = p]
                      /\ requests' = requests
                 ELSE /\ pc' = [pc EXCEPT ![i] = "awaiting"]
                      /\ outcome' = outcome
                      /\ requests' = Append(requests, p.request)
    /\ UNCHANGED <<norm_in, norm_fn, norm_out, response, reads, _ses>>

\* the transport answers call i, whichever calls are still waiting
Deliver(i) ==
    /\ pc[i] = "awaiting"
    /\ response[i] = NoResponse
    /\ \E res \in ConcurrentResponses :
          LET r == received(op[i], res)
          IN  /\ response' = [response EXCEPT ![i] = res]
              /\ IF r.kind = "await"
                 THEN pc' = pc /\ outcome' = outcome
                 ELSE /\ pc' = [pc EXCEPT ![i] = "done"]
                      /\ outcome' = [outcome EXCEPT ![i] = r]
    /\ UNCHANGED <<norm_in, norm_fn, norm_out, op, args, requests, reads, _ses>>

\* the variant in which the resumed coroutine runs on the locals of the
\* call next to it, when that call has its response
Json_neighbour(i) ==
    /\ pc[i] = "awaiting"
    /\ response[i] # NoResponse
    /\ reads' = [reads EXCEPT ![i] = reads[i] + 1]
    /\ LET j == (i % MaxCalls) + 1
           n == IF response[j] # NoResponse THEN j ELSE i
           r == read(op[n], response[n], reads[i] + 1)
       IN  IF r.kind = "await"
           THEN pc' = pc /\ outcome' = outcome
           ELSE /\ pc' = [pc EXCEPT ![i] = "done"]
                /\ outcome' = [outcome EXCEPT ![i] = r]
    /\ UNCHANGED <<norm_in, norm_fn, norm_out, op, args, requests, response, _ses>>

\* an await on the body (res.json() or res.text()) of call i completes,
\* whatever the other calls
\* did meanwhile
Json(i) ==
    /\ pc[i] = "awaiting"
    /\ response[i] # NoResponse
    /\ reads' = [reads EXCEPT ![i] = reads[i] + 1]
    /\ LET r == read(op[i], response[i], reads[i] + 1)
       IN  IF r.kind = "await"
           THEN pc' = pc /\ outcome' = outcome
           ELSE /\ pc' = [pc EXCEPT ![i] = "done"]
                /\ outcome' = [outcome EXCEPT ![i] = r]
    /\ UNCHANGED <<norm_in, norm_fn, norm_out, op, args, requests, response, _ses>>

NextCalls == \E i \in Calls : Call(i) \/ Deliver(i) \/ Json(i)

SpecCalls == InitCalls /\ [][NextCalls]_vars

(***************************************************************************)
(* utils.raise_for_status                                                  *)
(***************************************************************************)
\* the classes exceptions.py defines
exceptions == {"NoToken", "Unauthorized", "Forbidden", "BearerNoToken",
               "BadLinkType", "InternalServerError", "BadRequest",
               "ServiceUnavailable"}

correlation ==
    (401 :> "Unauthorized") @@ (400 :> "BadRequest")
        @@ (413 :> "RequestEntityTooLarge") @@ (403 :> "Forbidden")
        @@ (404 :> "NotFound")

\* building the table evaluates every class name it mentions
raise_for_status(status) ==
    IF \E s \in DOMAIN correlation : correlation[s] \notin exceptions
    THEN Raise("NameError")
    ELSE IF status \in DOMAIN correlation THEN Raise(correlation[status])
    ELSE Return(PyNone)

(***************************************************************************)
(* Inputs of the value types                                               *)
(***************************************************************************)
MaxSmallByte == 2

\* colour components: the small ones, the digit boundaries, those of teal
ByteSamples == (0..MaxSmallByte) \cup {15, 16, 26, 156, 188, 255}

\* the components handed to from_rgb: bytes, and one that is no byte
RgbSamples == ByteSamples \cup {256}

RgbInputs == [kind : {"rgb"}, r : RgbSamples, g : ByteSamples, b : ByteSamples]

\* the integers handed to Colour: the 24-bit ones and the first beyond them
IntInputs ==
    {[kind |-> "int", value |-> (r * 65536) + (g * 256) + b] :
        r \in ByteSamples, g \in ByteSamples, b \in ByteSamples}
        \cup {[kind |-> "int", value |-> 16777216]}

StrInputs ==
    [kind : {"str"},
     str : {<<"#", "1", "a", "b", "c", "9", "c">>,
            <<"#", "1", "A", "B", "C", "9", "C">>,
            <<"#", "f", "f">>,
            <<"#", "1", "0", "0", "0", "0", "0", "0">>,
            <<"#">>,
            <<"#", "x", "y", "z">>}]

\* the keyword arguments of Embed: each present or absent, the color an
\* int, a hex string or a Colour
ColorArgs == {PyInt(TEAL), PyStr(<<"#", "1", "a", "b", "c", "9", "c">>), Colour(TEAL)}

KwargsInputs ==
    {[kind |-> "kwargs",
      kwargs |-> [k \in S |-> IF k = "color" THEN c ELSE PyStr(<<"t">>)]] :
        S \in SUBSET {"title", "description", "image", "color"}, c \in ColorArgs}

\* link payloads: each member present or absent, the embed data empty or not
MetaArgs == {PyDict(<<>>),
             PyDict([title |-> PyStr(<<"t">>),
                     color |-> PyStr(<<"#", "1", "a", "b", "c", "9", "c">>)])}

TimeArgs == {PyStr(<<"1", "6", "0", "9", "4", "5", "9", "2", "0", "0", "1", "2", "3">>),
             PyStr(<<"5">>)}

LinkDataInputs ==
    {[kind |-> "link_data",
      data |-> [k \in S |-> CASE k = "meta" -> meta
                              [] k = "id" -> PyStr(ABC)
                              [] OTHER -> time]] :
        S \in SUBSET {"id", "created_at", "bumped_at", "meta"},
        meta \in MetaArgs, time \in TimeArgs}

\* user payloads: each member present or absent
IdArgs == {PyStr(<<"1", "2", "3">>), PyStr(<<"0", "0", "7">>)}

JoinedArgs ==
    TimeArgs \cup {PyStr(<<"1", "6", "0", "9", "4", "5", "9", "2", "0", "0", "0", "0", "0">>)}

UserDataInputs ==
    {[kind |-> "user_data",
      data |-> [k \in S |-> CASE k = "id" -> id
                              [] k = "joined_at" -> joined
                              [] k = "premium" -> PyBool(premium)
                              [] OTHER -> PyBool(blacklisted)]] :
        S \in SUBSET {"id", "premium", "blacklisted", "joined_at"},
        id \in IdArgs, joined \in JoinedArgs,
        premium \in BOOLEAN, blacklisted \in BOOLEAN}

\* responses whose body is a JSON envelope
ResponseInputs == [kind : {"response"}, status : Statuses, data : Envelopes]

StatusInputs == [kind : {"status"}, status : Statuses \cup {401, 403, 413, 418}]

ModelInputs ==
    RgbInputs \cup IntInputs \cup StrInputs \cup KwargsInputs
        \cup LinkDataInputs \cup UserDataInputs \cup ResponseInputs
        \cup StatusInputs

(***************************************************************************)
(* The value types and the status mapper applied to one input              *)
(***************************************************************************)
InitModels ==
    /\ norm_in \in ModelInputs
    /\ norm_fn = "none"
    /\ norm_out = NoOutcome
    /\ IdleCall

Applied(fn, out) ==
    /\ norm_fn = "none"
    /\ norm_fn' = fn
    /\ norm_out' = out
    /\ UNCHANGED <<norm_in, op, args, pc, requests, response, outcome, reads, _ses>>

\* str(Colour(v)) and Colour(str(Colour(v)))
ApplyColourStr ==
    /\ norm_in.kind = "int"
    /\ LET c == Colour_init(PyInt(norm_in.value))
           s == Colour_str(c.value)
       IN  Applied("Colour.__str__", [str |-> s, back |-> Colour_init(PyStr(s))])

\* str(Colour(s))
ApplyColourInit ==
    /\ norm_in.kind = "str"
    /\ LET c == Colour_init(PyStr(norm_in.str))
       IN  Applied("Colour.__init__",
                   IF c.kind = "raise" THEN c ELSE Return(PyStr(Colour_str(c.value))))

\* Colour.from_rgb(r, g, b) with its accessors
ApplyFromRgb ==
    /\ norm_in.kind = "rgb"
    /\ LET c == from_rgb(norm_in.r, norm_in.g, norm_in.b).value
       IN  Applied("Colour.from_rgb",
                   [colour |-> c, r |-> Colour_r(c), g |-> Colour_g(c),
                    b |-> Colour_b(c), rgb |-> to_rgb(c), str |-> Colour_str(c)])

\* the Colour each constructor builds: Colour(int), Colour(str), from_rgb
ApplyColourValue ==
    /\ norm_in.kind \in {"int", "str", "rgb"}
    /\ Applied("Colour.value",
               CASE norm_in.kind = "int" -> Colour_init(PyInt(norm_in.value))
                 [] norm_in.kind = "str" -> Colour_init(PyStr(norm_in.str))
                 [] norm_in.kind = "rgb" -> from_rgb(norm_in.r, norm_in.g, norm_in.b))

ApplyUserInit ==
    /\ norm_in.kind = "user_data"
    /\ Applied("User.__init__", User_init(norm_in.data))

ApplyEmbedInit ==
    /\ norm_in.kind = "kwargs"
    /\ Applied("Embed.__init__", Embed_init(norm_in.kwargs))

ApplyLinkInit ==
    /\ norm_in.kind = "link_data"
    /\ Applied("Link.__init__", Link_init(norm_in.data))

\* self._raise_for_status(response=await res.json())
ApplyClientRaiseForStatus ==
    /\ norm_in.kind = "response"
    /\ Applied("Client._raise_for_status", _raise_for_status(norm_in.data))

ApplyRaiseForStatus ==
    /\ norm_in.kind = "status"
    /\ Applied("raise_for_status", raise_for_status(norm_in.status))

NextModels ==
    \/ ApplyColourStr
    \/ ApplyColourInit
    \/ ApplyFromRgb
    \/ ApplyColourValue
    \/ ApplyUserInit
    \/ ApplyEmbedInit
    \/ ApplyLinkInit
    \/ ApplyClientRaiseForStatus
    \/ ApplyRaiseForStatus

SpecModels == InitModels /\ [][NextModels]_vars

(***************************************************************************)
(* Claims about the operations (checked under Spec)                        *)
(***************************************************************************)
ReadOps == {"get_user", "get_link", "get_app", "get_user_links",
            "get_user_apps", "get_top_links", "search"}

MutatingOps == {"create_link", "update_link", "delete_link"}

\* the call has ended and the transport had delivered a response to it
Answered == pc = "done" /\ response # NoResponse

Is2xx(status) == status >= 200 /\ status <= 299

\* C1: any response with HTTP status 429, to any public operation, makes
\* the operation raise (a dedicated RateLimited failure); it never returns
\* a normal result, whatever the body says.
C1_Status429Raises ==
    (Answered /\ response.status = 429) => outcome.kind = "raise"

\* C2: get_user, get_link and get_app, on a response whose status is 404,
\* return None and raise nothing, for every response body.
C2_NotFoundIsNone ==
    (Answered /\ op \in {"get_user", "get_link", "get_app"} /\ response.status = 404)
        => outcome = Return(PyNone)

\* C3: the read operations raise a failure for every response whose status
\* is non-2xx and not 404; none returns a normal result for it.
C3_ReadsRaiseOnErrorStatus ==
    (Answered /\ op \in ReadOps /\ ~Is2xx(response.status) /\ response.status # 404)
        => outcome.kind = "raise"

\* C4: create_link, update_link and delete_link return a status code only
\* when the response status is 2xx; for a non-2xx status they raise.
C4_MutationsRaiseOnErrorStatus ==
    (Answered /\ op \in MutatingOps)
        => /\ outcome.kind = "return" => Is2xx(response.status)
           /\ ~Is2xx(response.status) => outcome.kind = "raise"

\* the call was given an embed argument that is neither None nor an Embed
NonEmbedGiven ==
    /\ op \in {"create_link", "update_link"}
    /\ args.embed # PyNone
    /\ args.embed.t # "Embed"

\* C5: create_link and update_link called with an embed argument that is
\* neither None nor an Embed raise TypeError, the invalid-argument failure,
\* and no request is issued for that call.
C5_NonEmbedRaisesBeforeRequest ==
    NonEmbedGiven =>
        /\ pc = "done"
        /\ outcome = Raise("TypeError")
        /\ requests = <<>>
        /\ response = NoResponse

\* create_link was refused an object without attributes, which
\* _insert_embed_fields would have let pass
C5_Witness ==
    /\ op = "create_link"
    /\ args.embed = PyObject(<<>>)
    /\ pc = "done"
    /\ outcome = Raise("TypeError")
    /\ requests = <<>>

\* C6: create_link called with a valid Embed sends one POST whose body
\* contains the embed's title, description, image and color, the color as
\* its #rrggbb string; the call does not fail before the request is sent.
C6_EmbedIsSent ==
    (op = "create_link" /\ args.embed # PyNone /\ args.embed.t = "Embed")
        => /\ Len(requests) = 1
           /\ requests[1].method = "POST"
           /\ "meta" \in DOMAIN requests[1].json
           /\ requests[1].json.meta.title = args.embed.title
           /\ requests[1].json.meta.description = args.embed.description
           /\ requests[1].json.meta.image = args.embed.image
           /\ requests[1].json.meta.color = PyStr(Colour_str(args.embed.color))

\* C7: every public operation sends at most one request per call, exactly
\* one when no local argument check fails, and never a second one whatever
\* the response status is.
C7_ExactlyOneRequest ==
    /\ Len(requests) <= 1
    /\ (op # "none" /\ ~NonEmbedGiven) => Len(requests) = 1

ListOps == {"get_user_links", "get_user_apps", "get_top_links", "search"}

\* C11: get_user_links, get_user_apps, get_top_links and search, on a
\* response whose status is 404, return an empty sequence and raise
\* nothing, for every response body.
C11_NotFoundIsEmpty ==
    (Answered /\ op \in ListOps /\ response.status = 404)
        => outcome = Return(PyList(<<>>))

\* get_user_links was answered 404 with a body that is no JSON and
\* returned the empty list
C11_Witness ==
    /\ Answered
    /\ op = "get_user_links"
    /\ response.status = 404
    /\ ~response.body.json
    /\ outcome = Return(PyList(<<>>))

SearchTypes == {"server", "bot", "template"}

\* C12: search sends its GET with a `type` parameter only when link_type
\* equals server, bot or template ignoring case; when link_type is not
\* supplied or is any other value the parameter is omitted and the request
\* is still sent, no failure being raised; limit is optional the same way.
C12_SearchSendsWithoutType ==
    op = "search" =>
        /\ Len(requests) = 1
        /\ ~(pc = "done" /\ response = NoResponse)
        /\ "type" \in DOMAIN requests[1].url
              <=> (args.link_type # PyNone
                   /\ lower(args.link_type.lit) \in SearchTypes)
        /\ "limit" \in DOMAIN requests[1].url
              => (args.limit # PyNone /\ requests[1].url.limit = args.limit.int)

HTTP == <<"h", "t", "t", "p", ":", "/", "/">>

\* C13: create_link transmits the redirect with its scheme stripped: the
\* redirect field of the POST body begins with neither https:// nor http://.
C13_RedirectHasNoScheme ==
    (op = "create_link" /\ Len(requests) = 1)
        => /\ ~startswith(requests[1].json.redirect, HTTPS)
           /\ ~startswith(requests[1].json.redirect, HTTP)

\* C14: update_link builds its PATCH body by the rules of create_link: a
\* supplied redirect is sent with its scheme stripped together with a type
\* obtained by classifying it; password and unlisted appear only when
\* supplied.
C14_UpdateBodyAsCreate ==
    (op = "update_link" /\ Len(requests) = 1)
        => LET body == requests[1].json
           IN  /\ "password" \in DOMAIN body <=> args.password # PyNone
               /\ "unlisted" \in DOMAIN body <=> args.unlisted
               /\ "redirect" \in DOMAIN body <=> args.redirect # PyNone
               /\ args.redirect # PyNone =>
                     /\ ~startswith(body.redirect, HTTPS)
                     /\ "type" \in DOMAIN body
                     /\ Return(PyTag(body.type)) = match_link_type(body.redirect)

\* C16: a response code that is not in the recognized table is surfaced as
\* the generic failure (DSCGGError) and not as an unrelated lookup error,
\* and a code of the 2xx class produces no failure.
C16_UnknownCodeIsGenericFailure ==
    (Answered /\ op \in MutatingOps /\ response.body.json
       /\ "code" \in DOMAIN response.body.data)
        => LET code == lower(response.body.data.code)
           IN  /\ code \notin DOMAIN ResponseCodes => outcome = Raise("DSCGGError")
               /\ (code \in DOMAIN ResponseCodes /\ Is2xx(ResponseCodes[code]))
                     => outcome.kind = "return"

\* the call was answered with status 200 and an envelope whose success
\* flag is true
UserFound ==
    /\ response.status = 200
    /\ response.body.json
    /\ response.body.data.success

\* the response with its payload replaced by null
WithoutPayload(res) == [res EXCEPT !.body.data.payload = PyNone]

\* C25 as stated: get_user returns a User if and only if the response
\* status is 200 and the envelope's success flag is true; in every other
\* case it either raises or returns None, and never decodes the payload.
C25_Original ==
    (Answered /\ op = "get_user") =>
        /\ (outcome.kind = "return" /\ outcome.value.t = "User") <=> UserFound
        /\ ~UserFound =>
              /\ outcome.kind = "raise" \/ outcome = Return(PyNone)
              /\ response.body.json
                    => outcome = get_user_result(WithoutPayload(response))

\* C25 amended: get_user returns a User only if the response status is 200
\* and the envelope's success flag is true, and under that condition it
\* returns the User when the payload is a user object (here id "123") and
\* raises when the payload is anything else (an empty object, null, a
\* list, an identifier that is no number); in every other case it either
\* raises or returns None, and never decodes the payload: the outcome is
\* that of the same response without its payload.
C25_UserOnlyOnSuccess ==
    (Answered /\ op = "get_user") =>
        /\ (UserFound /\ response.body.data.payload = PyDict(FullData))
              => /\ outcome.kind = "return"
                 /\ outcome.value.t = "User"
                 /\ outcome.value.id = PyInt(123)
        /\ (UserFound /\ response.body.data.payload # PyDict(FullData))
              => /\ outcome.kind = "raise"
                 /\ outcome.exc \in {"TypeError", "ValueError", "AttributeError"}
        /\ (outcome.kind = "return" /\ outcome.value.t = "User") => UserFound
        /\ ~UserFound =>
              /\ outcome.kind = "raise" \/ outcome = Return(PyNone)
              /\ response.body.json
                    => outcome = get_user_result(WithoutPayload(response))

\* status 200 with the success flag false, a failing code and a payload
\* that is a user: no User
C25_Witness ==
    /\ Answered /\ op = "get_user"
    /\ response.status = 200
    /\ response.body.json
    /\ ~response.body.data.success
    /\ "code" \in DOMAIN response.body.data
    /\ response.body.data.code = "not_found"
    /\ response.body.data.payload = PyDict(FullData)
    /\ outcome = Raise("DSCGGError")

\* C26: get_user_apps(id) sends its GET to the same URL as
\* get_user_links(id), /user/{id}/links, and decodes each element of that
\* endpoint's payload as an App; for the same id the two operations differ
\* only in the type they decode into, not in the request they send (a
\* response that is not decoded, one with a status other than 200, ends both
\* the same way).
C26_AppsUseLinksEndpoint ==
    /\ (op \in {"get_user_apps", "get_user_links"} /\ pc # "idle") =>
          requests = <<[method |-> "GET",
                        url |-> [route |-> "/user/{user_id}/links",
                                 user_id |-> args.user_id]]>>
    /\ (Answered /\ op = "get_user_apps") =>
          /\ response.status # 200 => outcome = get_user_links_result(response)
          /\ (response.status = 200 /\ response.body.json
                 /\ response.body.data.payload = PyList(<<PyDict(FullData)>>))
                => /\ outcome.kind = "return"
                   /\ Len(outcome.value.items) = 1
                   /\ outcome.value.items[1].t = "App"
                   /\ outcome.value.items[1].id = PyStr(<<"1", "2", "3">>)

\* get_user_apps(7) got the links endpoint's payload and returned Apps
C26_Witness ==
    /\ Answered /\ op = "get_user_apps"
    /\ args.user_id = 7
    /\ requests = <<[method |-> "GET",
                     url |-> [route |-> "/user/{user_id}/links", user_id |-> 7]]>>
    /\ response.status = 200
    /\ outcome.kind = "return"
    /\ Len(outcome.value.items) = 1
    /\ outcome.value.items[1].t = "App"

(***************************************************************************)
(* Claims about calls in flight together (checked under SpecCalls)         *)
(***************************************************************************)
\* what operation o with arguments a ends with when it runs alone and the
\* transport answers res
Alone(o, a, res) ==
    LET p == prepare(o, a) IN IF p.kind = "raise" THEN p ELSE result(o, res)

\* the calls that handed a request to the session
Sent == {i \in Calls : pc[i] # "idle" /\ prepare(op[i], args[i]).kind = "send"}

\* C23: when several operations are in flight on the same Client and their
\* responses arrive in any interleaving, each operation's outcome equals
\* the outcome it has when run alone with the same arguments and the same
\* response; the session holds one request of each call that sent one, and
\* no operation closes or replaces it.
C23_CallsDoNotInterfere ==
    /\ \A i \in Calls :
          /\ pc[i] = "done" => outcome[i] = Alone(op[i], args[i], response[i])
          /\ pc[i] = "awaiting" => outcome[i] = NoOutcome
    /\ Len(requests) = Cardinality(Sent)
    /\ \A i \in Sent : \E n \in 1..Len(requests) :
          requests[n] = prepare(op[i], args[i]).request
    /\ _ses = Session

\* create_link sent its request first, has its response and is still
\* suspended in res.json(); get_user(8), sent after it, ran to its end
\* meanwhile and got its own User
C23_Witness ==
    /\ op[1] = "create_link" /\ pc[1] = "awaiting"
    /\ response[1] # NoResponse /\ reads[1] = 0
    /\ op[2] = "get_user" /\ args[2].user_id = 8 /\ pc[2] = "done"
    /\ Len(requests) = 2
    /\ requests[1].method = "POST"
    /\ requests[2] = [method |-> "GET",
                      url |-> [route |-> "/user/{user_id}", user_id |-> 8]]
    /\ response[2].status = 200
    /\ reads[2] = 1
    /\ outcome[2].kind = "return"
    /\ outcome[2].value.t = "User"

(***************************************************************************)
(* Claims about the static helpers (checked under SpecNorm)                *)
(***************************************************************************)
DscPrefixes == {DSC_HTTPS, DSC_HTTP, DSC_BARE}

\* C8: format_link returns exactly X for an input made of one of the three
\* dsc.gg prefixes followed by X (one prefix only is removed, also when X
\* begins with a prefix itself), and returns an input that begins with none
\* of the prefixes unchanged.
C8_FormatLinkStripsOnePrefix ==
    norm_fn = "format_link" =>
        /\ norm_out.kind = "return"
        /\ \A P \in DscPrefixes :
              startswith(norm_in, P) => P \o norm_out.value.str = norm_in
        /\ (\A P \in DscPrefixes : ~startswith(norm_in, P))
              => norm_out.value.str = norm_in

\* http://dsc.gg/dsc.gg/ gives dsc.gg/: X began with a prefix and kept it
C8_Witness ==
    /\ norm_fn = "format_link"
    /\ norm_in = DSC_HTTP \o DSC_BARE
    /\ norm_out = Return(PyStr(DSC_BARE))

\* the target with https:// prepended when it lacks it
WithScheme(target) == IF startswith(target, HTTPS) THEN target ELSE HTTPS \o target

\* p is target truncated through its last "/"
TruncatedIs(target, p) ==
    /\ startswith(target, p)
    /\ Len(p) > 0
    /\ p[Len(p)] = "/"
    /\ \A j \in (Len(p) + 1)..Len(target) : target[j] # "/"

\* The tag the claim gives a target, other being the fall-through tag
ClaimedTag(target, other) ==
    IF TruncatedIs(WithScheme(target), Server) THEN "server"
    ELSE IF TruncatedIs(WithScheme(target), Template) THEN "template"
    ELSE IF TruncatedIs(WithScheme(target), Bot) THEN "bot"
    ELSE other

\* C9: match_link_type, after prepending https:// to a target that lacks it
\* and truncating through the last "/", returns server, template or bot
\* exactly when the truncated prefix is the corresponding pattern, and
\* `generic` for every other target.
C9_MatchLinkTypeTags ==
    norm_fn = "match_link_type" =>
        norm_out = Return(PyTag(ClaimedTag(norm_in, "generic")))

\* C10: match_link_type is total: for every input string it returns a
\* link-type tag and never raises.
C10_MatchLinkTypeTotal ==
    norm_fn = "match_link_type" =>
        /\ norm_out.kind = "return"
        /\ norm_out.value.t = "strlit"
        /\ norm_out.value.lit \in {"server", "template", "bot", "link"}

\* the empty string, which holds no "/", is classified without a failure
C10_Witness ==
    /\ norm_fn = "match_link_type"
    /\ norm_in = <<>>
    /\ norm_out.kind = "return"

(***************************************************************************)
(* Claims about the value types and the status mapper (checked under       *)
(* SpecModels)                                                             *)
(***************************************************************************)
\* the failure the claim gives each recognized status, by the names the
\* repository uses (RateLimited has no class of its own)
ClaimedFailure ==
    (400 :> "BadRequest") @@ (401 :> "Unauthorized") @@ (403 :> "Forbidden")
        @@ (404 :> "NotFound") @@ (413 :> "RequestEntityTooLarge")
        @@ (429 :> "RateLimited") @@ (500 :> "InternalServerError")
        @@ (503 :> "ServiceUnavailable")

\* C15: each recognized status yields its own typed failure (400, 401, 403,
\* 404, 413, 429, 500, 503 as in the table); two different recognized
\* statuses never yield the same failure type.
C15_StatusYieldsItsFailure ==
    (norm_fn = "raise_for_status" /\ norm_in.status \in DOMAIN ClaimedFailure)
        => norm_out = Raise(ClaimedFailure[norm_in.status])

\* C17: constructing an Embed succeeds for every combination of present
\* and absent title, description, image and color, and a color given as an
\* int or a hex string is stored as a Colour.
C17_EmbedAcceptsEveryCombination ==
    norm_fn = "Embed.__init__" =>
        /\ norm_out.kind = "return"
        /\ norm_out.value.t = "Embed"
        /\ "color" \in DOMAIN norm_in.kwargs => norm_out.value.color = Colour(TEAL)
        /\ "title" \in DOMAIN norm_in.kwargs
              => norm_out.value.title = norm_in.kwargs.title

\* C18: decoding a link payload that carries no embed data yields a Link
\* whose embed is absent; decoding does not fail because the embed is
\* missing.
C18_LinkWithoutEmbed ==
    (norm_fn = "Link.__init__" /\ "created_at" \in DOMAIN norm_in.data
       /\ "meta" \notin DOMAIN norm_in.data)
        => /\ norm_out.kind = "return"
           /\ norm_out.value.embed = PyNone

LowerHexChars == {"0", "1", "2", "3", "4", "5", "6", "7", "8", "9",
                  "a", "b", "c", "d", "e", "f"}

TealHex == <<"#", "1", "a", "b", "c", "9", "c">>

\* C19: for every integer v in 0..2^24-1, str(Colour(v)) is `#` followed by
\* exactly six lowercase hexadecimal digits and Colour(str(Colour(v))) has
\* the value v; Colour("#1abc9c") prints as "#1abc9c".
C19_HexRoundTrip ==
    /\ (norm_fn = "Colour.__str__" /\ norm_in.value < 16777216) =>
          /\ Len(norm_out.str) = 7
          /\ norm_out.str[1] = "#"
          /\ \A i \in 2..7 : norm_out.str[i] \in LowerHexChars
          /\ norm_out.back = Return(Colour(norm_in.value))
    /\ (norm_fn = "Colour.__init__" /\ norm_in.str = TealHex) =>
          norm_out = Return(PyStr(TealHex))

\* the value 1 is printed with five padding zeros and read back
C19_Witness ==
    /\ norm_fn = "Colour.__str__"
    /\ norm_in.value = 1
    /\ norm_out.str = <<"#", "0", "0", "0", "0", "0", "1">>
    /\ norm_out.back = Return(Colour(1))

\* C20: for all r, g, b in 0..255, Colour.from_rgb(r, g, b) has the value
\* r*65536 + g*256 + b, its r, g, b accessors and to_rgb() return exactly
\* (r, g, b), and from_rgb(26, 188, 156) prints as "#1abc9c".
C20_RgbRoundTrip ==
    (norm_fn = "Colour.from_rgb" /\ norm_in.r \in 0..255) =>
        /\ norm_out.colour = Colour((norm_in.r * 65536) + (norm_in.g * 256) + norm_in.b)
        /\ norm_out.r = norm_in.r
        /\ norm_out.g = norm_in.g
        /\ norm_out.b = norm_in.b
        /\ norm_out.rgb = <<norm_in.r, norm_in.g, norm_in.b>>
        /\ (norm_in.r = 26 /\ norm_in.g = 188 /\ norm_in.b = 156)
              => norm_out.str = TealHex

\* from_rgb(26, 188, 156) is teal and gives its three components back
C20_Witness ==
    /\ norm_fn = "Colour.from_rgb"
    /\ norm_in.r = 26 /\ norm_in.g = 188 /\ norm_in.b = 156
    /\ norm_out.colour = Colour(TEAL)
    /\ norm_out.rgb = <<26, 188, 156>>
    /\ norm_out.str = TealHex

\* C21: every Colour is a 24-bit RGB value: whichever constructor built it
\* (an integer, a `#`-prefixed hex string, or from_rgb with integer
\* components), its value lies in 0..2^24-1.
C21_ColourIs24Bit ==
    (norm_fn = "Colour.value" /\ norm_out.kind = "return")
        => norm_out.value.value \in 0..16777215

\* what the claim gives for each identifier and each millisecond epoch
ClaimedId == (<<"1", "2", "3">> :> 123) @@ (<<"0", "0", "7">> :> 7)

ClaimedTime ==
    (<<"1", "6", "0", "9", "4", "5", "9", "2", "0", "0", "0", "0", "0">>
        :> [t |-> "datetime", second |-> 1609459200, microsecond |-> 0])
    @@ (<<"1", "6", "0", "9", "4", "5", "9", "2", "0", "0", "1", "2", "3">>
        :> [t |-> "datetime", second |-> 1609459200, microsecond |-> 123000])
    @@ (<<"5">> :> [t |-> "datetime", second |-> 0, microsecond |-> 5000])

\* C22: decoding a user payload converts the string identifier to the
\* integer it denotes, keeps the premium and blacklisted flags as given, and
\* converts the millisecond-epoch joined_at to the time that many
\* milliseconds after the epoch ("123" gives 123; "1609459200000" gives
\* 1609459200 seconds).
C22_UserDecoding ==
    (norm_fn = "User.__init__" /\ {"id", "joined_at"} \subseteq DOMAIN norm_in.data)
        => /\ norm_out.kind = "return"
           /\ norm_out.value.id = PyInt(ClaimedId[norm_in.data.id.str])
           /\ norm_out.value.joined_at = ClaimedTime[norm_in.data.joined_at.str]
           /\ "premium" \in DOMAIN norm_in.data
                 => norm_out.value.premium = norm_in.data.premium
           /\ "blacklisted" \in DOMAIN norm_in.data
                 => norm_out.value.blacklisted = norm_in.data.blacklisted

\* the payload of the example: id "123", premium, not blacklisted, joined at
\* 1609459200000
C22_Witness ==
    /\ norm_fn = "User.__init__"
    /\ norm_in.data = [id |-> PyStr(<<"1", "2", "3">>), premium |-> PyBool(TRUE),
                       blacklisted |-> PyBool(FALSE),
                       joined_at |-> PyStr(<<"1", "6", "0", "9", "4", "5", "9", "2", "0", "0", "0", "0", "0">>)]
    /\ norm_out.kind = "return"
    /\ norm_out.value.id = PyInt(123)
    /\ norm_out.value.premium = PyBool(TRUE)
    /\ norm_out.value.blacklisted = PyBool(FALSE)
    /\ norm_out.value.joined_at.second = 1609459200
    /\ norm_out.value.joined_at.microsecond = 0

\* the codes whose numeric status is 2xx
NeverRaising == {"payload_received", "link_created", "link_updated", "link_deleted"}

\* the codes ResponseCodes lists, as they may come over the wire
ListedCodes == (DOMAIN ResponseCodes) \cup {"RATE_LIMIT"}

\* C24: Client._raise_for_status decides from the envelope alone: it raises
\* DSCGGError exactly when the numeric status that ResponseCodes gives the
\* lower-cased code is outside 2xx (payload_received, link_created,
\* link_updated and link_deleted never raise, every other listed code
\* always raises), whatever the HTTP status of the response.
C24_EnvelopeAloneDecides ==
    (norm_fn = "Client._raise_for_status" /\ "code" \in DOMAIN norm_in.data) =>
        /\ norm_in.data.code \in NeverRaising => norm_out = Return(PyNone)
        /\ norm_in.data.code \in ListedCodes \ NeverRaising
              => norm_out = Raise("DSCGGError")
        /\ norm_in.data.code \in ListedCodes =>
              (norm_out = Raise("DSCGGError")
                 <=> ~Is2xx(ResponseCodes[lower(norm_in.data.code)]))
        /\ norm_out = Raise("DSCGGError") => norm_in.data.code \in ListedCodes

\* an upper-case failing code under HTTP status 200 raises, and so does
\* the same envelope under any other status
C24_Witness ==
    /\ norm_fn = "Client._raise_for_status"
    /\ norm_in.status = 200
    /\ "code" \in DOMAIN norm_in.data
    /\ norm_in.data.code = "RATE_LIMIT"
    /\ norm_out = Raise("DSCGGError")

====
